---- MODULE Spec2Model ----
(***************************************************************************)
(* A model of app.py, the Streamlit script of the AI Job Search Assistant. *)
(*                                                                         *)
(* The script is re-executed from top to bottom on every user interaction  *)
(* (a "run").  Between runs the only program state is st.session_state     *)
(* (versions, chat_history) and the values held by the input widgets; the  *)
(* page a run produced decides which widgets the user can act on next.     *)
(* Texts are TLA+ strings, so prompts, scores and parsing are computed on  *)
(* the characters the Python code sees.                                    *)
(***************************************************************************)
EXTENDS Integers, Sequences, FiniteSets, TLC

VARIABLES
    uploaded,        \* st.file_uploader value: NoFile or a file record
    job_description, \* st.text_area "Paste Job Description (Optional)"
    user_question,   \* st.text_input "Ask a question about your resume"
    demo,            \* st.text_area "Demo Resume Text"
    version_name,    \* st.text_input "Label this resume version"
    versions,        \* st.session_state.versions (label -> text)
    chat_history,    \* st.session_state.chat_history, or Unset
    versions_before, \* versions as the last run found it
    page,            \* what the last run rendered
    requests,        \* generation requests issued by the last run
    arg,             \* argument of a function-level call (pure checks)
    ret              \* its result

vars == <<uploaded, job_description, user_question, demo, version_name,
          versions, versions_before, chat_history, page, requests, arg, ret>>

-----------------------------------------------------------------------------
(* Python values                                                           *)

None == "<None>"

Unset == "<unset>"

\* bool(x) for x a str or None
Truthy(x) == x # None /\ x # ""

-----------------------------------------------------------------------------
(* str helpers                                                             *)

Upper == <<"A","B","C","D","E","F","G","H","I","J","K","L","M",
           "N","O","P","Q","R","S","T","U","V","W","X","Y","Z">>

Lowers == <<"a","b","c","d","e","f","g","h","i","j","k","l","m",
            "n","o","p","q","r","s","t","u","v","w","x","y","z">>

LowerChar(c) ==
    IF \E i \in 1..26 : Upper[i] = c
    THEN Lowers[CHOOSE i \in 1..26 : Upper[i] = c]
    ELSE c

RECURSIVE lower(_)
\* str.lower()
lower(s) ==
    IF s = "" THEN ""
    ELSE LowerChar(SubSeq(s, 1, 1)) \o lower(SubSeq(s, 2, Len(s)))

\* the `in` operator on two strings
Contains(s, w) ==
    \E i \in 1..(Len(s) - Len(w) + 1) : SubSeq(s, i, i + Len(w) - 1) = w

Whitespace == {" ", "\n", "\t", "\r"}

RECURSIVE lstrip(_)
lstrip(s) ==
    IF s # "" /\ SubSeq(s, 1, 1) \in Whitespace
    THEN lstrip(SubSeq(s, 2, Len(s)))
    ELSE s

RECURSIVE rstrip(_)
rstrip(s) ==
    IF s # "" /\ SubSeq(s, Len(s), Len(s)) \in Whitespace
    THEN rstrip(SubSeq(s, 1, Len(s) - 1))
    ELSE s

\* str.strip()
strip(s) == rstrip(lstrip(s))

-----------------------------------------------------------------------------
(* make_prompt                                                             *)

Modes == {"analyze", "cover_letter", "linkedin", "interview"}

Preamble(mode) ==
    "You are an expert career assistant. Mode: " \o mode
    \o ".\nPlease keep your response as concise as possible."

AnalyzeInstr ==
    "Analyze the resume and return ONLY valid JSON (no markdown, no explanation, no code block) with keys: assessment, strengths, weaknesses, rewritten_bullets, "
    \o "job_titles, freelance_ideas, keywords, rewritten_resume, bullet_resume, email_summary.\n"

CoverLetterInstr ==
    "Generate a tailored cover letter based on the resume and job description. Use a professional tone.\n"

LinkedInInstr ==
    "Suggest LinkedIn headline, summary, and experience section updates based on the resume.\n"

InterviewInstr ==
    "Generate 5 personalized interview questions and suggested answers based on the resume and job description.\n"

\* make_prompt with the user-question block put before the job description
make_prompt_question_first(resume_text, jd, uq, mode) ==
    LET base0 == Preamble(mode)
        base1 == IF mode = "analyze" THEN base0 \o AnalyzeInstr
                 ELSE IF mode = "cover_letter" THEN base0 \o CoverLetterInstr
                 ELSE IF mode = "linkedin" THEN base0 \o LinkedInInstr
                 ELSE IF mode = "interview" THEN base0 \o InterviewInstr
                 ELSE base0
        base2 == IF Truthy(uq)
                 THEN base1 \o "User Question:\n" \o uq \o "\n"
                 ELSE base1
        base3 == IF Truthy(jd)
                 THEN base2 \o "Job Description:\n" \o jd \o "\n"
                 ELSE base2
    IN  base3 \o "Resume Text:\n" \o resume_text

make_prompt(resume_text, jd, uq, mode) ==
    LET base0 == Preamble(mode)
        base1 == IF mode = "analyze" THEN base0 \o AnalyzeInstr
                 ELSE IF mode = "cover_letter" THEN base0 \o CoverLetterInstr
                 ELSE IF mode = "linkedin" THEN base0 \o LinkedInInstr
                 ELSE IF mode = "interview" THEN base0 \o InterviewInstr
                 ELSE base0
        base2 == IF Truthy(jd)
                 THEN base1 \o "Job Description:\n" \o jd \o "\n"
                 ELSE base1
        base3 == IF Truthy(uq)
                 THEN base2 \o "User Question:\n" \o uq \o "\n"
                 ELSE base2
    IN  base3 \o "Resume Text:\n" \o resume_text

-----------------------------------------------------------------------------
(* resume_score                                                            *)

ContactWords == {"email", "phone", "contact"}

RECURSIVE SumValues(_, _)
\* sum(score.values()) over the keys ks of the dict
SumValues(score, ks) ==
    IF ks = {} THEN 0
    ELSE LET k == CHOOSE x \in ks : TRUE
         IN  score[k] + SumValues(score, ks \ {k})

\* resume_score without the .lower() calls
resume_score_case_sensitive(text) ==
    LET score == [Contact    |-> IF \E word \in ContactWords :
                                       Contains(text, word)
                                 THEN 10 ELSE 0,
                  Skills     |-> IF Contains(text, "skills") THEN 10 ELSE 0,
                  Experience |-> IF Contains(text, "experience")
                                 THEN 10 ELSE 0]
    IN  [Contact |-> score.Contact, Skills |-> score.Skills,
         Experience |-> score.Experience,
         Total |-> SumValues(score, DOMAIN score)]

resume_score(text) ==
    LET score == [Contact    |-> IF \E word \in ContactWords :
                                       Contains(lower(text), word)
                                 THEN 10 ELSE 0,
                  Skills     |-> IF Contains(lower(text), "skills")
                                 THEN 10 ELSE 0,
                  Experience |-> IF Contains(lower(text), "experience")
                                 THEN 10 ELSE 0]
    IN  [Contact |-> score.Contact, Skills |-> score.Skills,
         Experience |-> score.Experience,
         Total |-> SumValues(score, DOMAIN score)]

-----------------------------------------------------------------------------
(* json.loads, on texts without escape sequences or fractions              *)

JStr(s)  == [t |-> "str", s |-> s]
JNum(n)  == [t |-> "num", n |-> n]
JBool(b) == [t |-> "bool", b |-> b]
JNull    == [t |-> "null"]
JList(l) == [t |-> "list", l |-> l]
\* a dict: its keys in insertion order, and the value of each key
JDict(keys, d) == [t |-> "dict", keys |-> keys, d |-> d]

EmptyDict == JDict(<<>>, [k \in {} |-> JNull])

\* d[key] = v on a dict (a repeated key keeps its place and takes the new value)
DictSet(dict, key, v) ==
    JDict(IF key \in DOMAIN dict.d THEN dict.keys ELSE Append(dict.keys, key),
          (key :> v) @@ dict.d)

Digits == <<"0","1","2","3","4","5","6","7","8","9">>

IsDigit(c) == \E k \in 1..10 : Digits[k] = c

DigitVal(c) == (CHOOSE k \in 1..10 : Digits[k] = c) - 1

\* the character at position i, "" past the end
At(s, i) == IF i >= 1 /\ i <= Len(s) THEN SubSeq(s, i, i) ELSE ""

StartsAt(s, i, w) == i + Len(w) - 1 <= Len(s) /\ SubSeq(s, i, i + Len(w) - 1) = w

RECURSIVE SkipWs(_, _)
SkipWs(s, i) == IF At(s, i) \in Whitespace THEN SkipWs(s, i + 1) ELSE i

Fail == [ok |-> FALSE, v |-> JNull, i |-> 0]

Done(v, i) == [ok |-> TRUE, v |-> v, i |-> i]

ParseString(s, i) ==
    IF At(s, i) # "\"" \/ ~ \E j \in (i+1)..Len(s) : At(s, j) = "\""
    THEN Fail
    ELSE LET j == CHOOSE j \in (i+1)..Len(s) :
                      /\ At(s, j) = "\""
                      /\ \A k \in (i+1)..(j-1) : At(s, k) # "\""
             body == SubSeq(s, i + 1, j - 1)
         IN  IF \E k \in 1..Len(body) : SubSeq(body, k, k) \in {"\n", "\t", "\r"}
             THEN Fail   \* control characters are invalid inside a string
             ELSE Done(JStr(body), j + 1)

RECURSIVE ScanDigits(_, _, _)
ScanDigits(s, i, acc) ==
    IF IsDigit(At(s, i)) THEN ScanDigits(s, i + 1, 10 * acc + DigitVal(At(s, i)))
    ELSE [n |-> acc, i |-> i]

ParseNumber(s, i) ==
    LET neg   == At(s, i) = "-"
        start == IF neg THEN i + 1 ELSE i
        r     == ScanDigits(s, start, 0)
    IN  IF ~ IsDigit(At(s, start)) THEN Fail
        ELSE IF At(s, start) = "0" /\ r.i > start + 1 THEN Fail  \* leading zero
        ELSE Done(JNum(IF neg THEN 0 - r.n ELSE r.n), r.i)

RECURSIVE ParseValue(_, _)
RECURSIVE ParseElems(_, _, _)
RECURSIVE ParseMembers(_, _, _)

\* the elements of an array, i at the first character of an element
ParseElems(s, i, acc) ==
    LET r == ParseValue(s, i)
        j == SkipWs(s, r.i)
    IN  IF ~ r.ok THEN Fail
        ELSE IF At(s, j) = "," THEN ParseElems(s, SkipWs(s, j + 1), Append(acc, r.v))
        ELSE IF At(s, j) = "]" THEN Done(JList(Append(acc, r.v)), j + 1)
        ELSE Fail

\* the members of an object, i at the opening quote of a key
ParseMembers(s, i, acc) ==
    LET k == ParseString(s, i)
        c == SkipWs(s, k.i)
        r == ParseValue(s, SkipWs(s, c + 1))
        j == SkipWs(s, r.i)
        d == DictSet(acc, k.v.s, r.v)
    IN  IF ~ k.ok \/ At(s, c) # ":" THEN Fail
        ELSE IF ~ r.ok THEN Fail
        ELSE IF At(s, j) = "," THEN ParseMembers(s, SkipWs(s, j + 1), d)
        ELSE IF At(s, j) = "}" THEN Done(d, j + 1)
        ELSE Fail

ParseValue(s, i) ==
    LET c == At(s, i)
    IN  IF c = "\"" THEN ParseString(s, i)
        ELSE IF c = "{" THEN
            IF At(s, SkipWs(s, i + 1)) = "}"
            THEN Done(EmptyDict, SkipWs(s, i + 1) + 1)
            ELSE ParseMembers(s, SkipWs(s, i + 1), EmptyDict)
        ELSE IF c = "[" THEN
            IF At(s, SkipWs(s, i + 1)) = "]"
            THEN Done(JList(<<>>), SkipWs(s, i + 1) + 1)
            ELSE ParseElems(s, SkipWs(s, i + 1), <<>>)
        ELSE IF StartsAt(s, i, "null") THEN Done(JNull, i + 4)
        ELSE IF StartsAt(s, i, "true") THEN Done(JBool(TRUE), i + 4)
        ELSE IF StartsAt(s, i, "false") THEN Done(JBool(FALSE), i + 5)
        ELSE IF c = "-" \/ IsDigit(c) THEN ParseNumber(s, i)
        ELSE Fail

\* json.loads(s): one value, then nothing but white space; ok = FALSE stands
\* for json.JSONDecodeError
json_loads(s) ==
    LET r == ParseValue(s, SkipWs(s, 1))
    IN  IF r.ok /\ SkipWs(s, r.i) > Len(s)
        THEN [ok |-> TRUE, v |-> r.v]
        ELSE [ok |-> FALSE, v |-> JNull]

-----------------------------------------------------------------------------
(* The texts the endpoint answers with                                     *)

FullJson ==
    "{\"assessment\": \"Solid\", \"strengths\": [\"SQL\"], "
    \o "\"weaknesses\": [\"No metrics\"], \"rewritten_bullets\": [\"Led 3 analysts\"], "
    \o "\"job_titles\": [\"Analyst\", \"BI Developer\"], \"freelance_ideas\": [\"Dashboards\"], "
    \o "\"keywords\": [\"SQL\", \"ETL\"], \"rewritten_resume\": \"R1\", "
    \o "\"bullet_resume\": \"B1\", \"email_summary\": \"Hi\"}"

PartialJson == "{\"rewritten_resume\": \"R2\", \"extra\": 1}"

EmptyObject == "{}"

\* a fenced code block (CommonMark accepts tildes as well as backquotes)
FencedJson == "~~~json\n{\"rewritten_resume\": \"R1\"}\n~~~"

Prose == "Sure! Here is the analysis."

ArrayJson == "[\"Solid\"]"

NullListJson == "{\"assessment\": \"Solid\", \"strengths\": null}"

RawTexts ==
    {FullJson, PartialJson, EmptyObject, FencedJson, Prose, ArrayJson,
     NullListJson}

Replies ==
    [ok : {TRUE}, text : RawTexts] \cup {[ok |-> FALSE, text |-> "Connection error."]}

-----------------------------------------------------------------------------
(* Python semantics the Analyze handler relies on                          *)

\* bool(v) for a decoded JSON value
PyTruthy(v) ==
    IF v.t = "str" THEN v.s # ""
    ELSE IF v.t = "num" THEN v.n # 0
    ELSE IF v.t = "bool" THEN v.b
    ELSE IF v.t = "list" THEN v.l # <<>>
    ELSE IF v.t = "dict" THEN v.keys # <<>>
    ELSE FALSE

\* only a dict has .get; on anything else the call raises AttributeError
HasGet(v) == v.t = "dict"

\* result.get(key, default)
Get(result, key, default) ==
    IF key \in DOMAIN result.d THEN result.d[key] ELSE default

\* iter(v) succeeds on list, str and dict, and raises TypeError otherwise
Iterable(v) == v.t \in {"list", "str", "dict"}

\* the items a for loop over v visits
Iter(v) ==
    IF v.t = "list" THEN v.l
    ELSE IF v.t = "str" THEN [i \in 1..Len(v.s) |-> JStr(SubSeq(v.s, i, i))]
    ELSE [i \in 1..Len(v.keys) |-> JStr(v.keys[i])]

RECURSIVE JoinItems(_, _)
\* sep.join(items) for items that are all str
JoinItems(sep, items) ==
    IF items = <<>> THEN ""
    ELSE IF Len(items) = 1 THEN items[1].s
    ELSE items[1].s \o sep \o JoinItems(sep, Tail(items))

\* ", ".join(v) raises TypeError unless v is iterable and yields only str
Joinable(v) == Iterable(v) /\ \A i \in 1..Len(Iter(v)) : Iter(v)[i].t = "str"

-----------------------------------------------------------------------------
(* extract_text                                                            *)

EndsWith(s, w) == Len(s) >= Len(w) /\ SubSeq(s, Len(s) - Len(w) + 1, Len(s)) = w

\* a file is [name, body, raises]: body is the text its pages or paragraphs
\* hold; raises is <<>>, or <<e>> when the reader raises e on this file
extract_text(uploaded_file) ==
    IF uploaded_file.raises # <<>>
       /\ (EndsWith(lower(uploaded_file.name), ".pdf")
           \/ EndsWith(lower(uploaded_file.name), ".docx"))
    THEN [text |-> "",
          errors |-> <<"Error reading file: " \o uploaded_file.raises[1]>>]
    ELSE IF EndsWith(lower(uploaded_file.name), ".pdf")
    THEN [text |-> uploaded_file.body, errors |-> <<>>]
    ELSE IF EndsWith(lower(uploaded_file.name), ".docx")
    THEN [text |-> uploaded_file.body, errors |-> <<>>]
    ELSE [text |-> "", errors |-> <<>>]

-----------------------------------------------------------------------------
(* The generation endpoint                                                 *)

Model == "gpt-3.5-turbo"

MaxTokens == 512

\* temperature=0.2, in tenths
AnalyzeTemperature == 2

\* client.chat.completions.create(...) as issued by the Analyze handler
AnalyzeRequest(prompt) ==
    [site |-> "analyze", prompt |-> prompt,
     kwargs |-> [model |-> Model, temperature |-> AnalyzeTemperature,
                 max_tokens |-> MaxTokens]]

\* ... and as issued by the three free-text handlers and by the chat block
PlainRequest(site, prompt) ==
    [site |-> site, prompt |-> prompt,
     kwargs |-> [model |-> Model, max_tokens |-> MaxTokens]]

\* str(e) of a json.JSONDecodeError: "<what>: line l column c (char n)";
\* the text that failed to parse is not part of it
JSONDecodeErrorText == "Expecting value: line 1 column 1 (char 0)"

-----------------------------------------------------------------------------
(* st.session_state.versions                                               *)

\* a save that leaves a label that is already saved as it is
saveVersion_first_wins(vs, label, text) ==
    IF label \in DOMAIN vs.d THEN vs ELSE DictSet(vs, label, text)

\* st.session_state.versions[version_name] = rewritten_resume
saveVersion(vs, label, text) == DictSet(vs, label, text)

-----------------------------------------------------------------------------
(* The Analyze & Rewrite Resume handler                                    *)

\* the call and json.loads inside the try, and the except branch
AnalyzeCall(text, jd, uq, reply) ==
    LET Try(prompt, parsed) ==
            IF ~ reply.ok
            THEN [request |-> AnalyzeRequest(prompt),
                  errors |-> <<"OpenAI API call failed: " \o reply.text>>,
                  result |-> EmptyDict]
            ELSE IF ~ parsed.ok
            THEN [request |-> AnalyzeRequest(prompt),
                  errors |-> <<"OpenAI API call failed: "
                               \o JSONDecodeErrorText>>,
                  result |-> EmptyDict]
            ELSE [request |-> AnalyzeRequest(prompt), errors |-> <<>>,
                  result |-> parsed.v]
    IN  Try(make_prompt(text, jd, uq, "analyze"), json_loads(reply.text))

\* the sections of the result in the order the handler renders them
AnalysisFields ==
    << [key |-> "assessment",        how |-> "write"],
       [key |-> "strengths",         how |-> "bullets"],
       [key |-> "weaknesses",        how |-> "bullets"],
       [key |-> "rewritten_bullets", how |-> "bullets"],
       [key |-> "job_titles",        how |-> "join"],
       [key |-> "freelance_ideas",   how |-> "bullets"],
       [key |-> "keywords",          how |-> "join"],
       [key |-> "email_summary",     how |-> "text"],
       [key |-> "bullet_resume",     how |-> "text"],
       [key |-> "rewritten_resume",  how |-> "text"] >>

\* what one section puts on the page; ok = FALSE when rendering it raises
RenderField(result, f) ==
    IF f.how = "bullets" THEN
        LET v == Get(result, f.key, JList(<<>>))
        IN  IF Iterable(v) THEN [ok |-> TRUE, v |-> JList(Iter(v))]
            ELSE [ok |-> FALSE, v |-> JNull]
    ELSE IF f.how = "join" THEN
        LET v == Get(result, f.key, JList(<<>>))
        IN  IF Joinable(v) THEN [ok |-> TRUE, v |-> JStr(JoinItems(", ", Iter(v)))]
            ELSE [ok |-> FALSE, v |-> JNull]
    ELSE [ok |-> TRUE, v |-> Get(result, f.key, JStr(""))]

\* the sections rendered before the first one that raises (all of them when
\* none does), and the exception that ended the rendering, if any
RenderFields(result) ==
    LET n     == Len(AnalysisFields)
        bad   == {i \in 1..n : ~ RenderField(result, AnalysisFields[i]).ok}
        first == IF bad = {} THEN n + 1
                 ELSE CHOOSE i \in bad : \A j \in bad : i <= j
        index == [k \in {AnalysisFields[i].key : i \in 1..(first - 1)} |->
                    CHOOSE i \in 1..n : AnalysisFields[i].key = k]
    IN  [shown |-> [k \in DOMAIN index |->
                       RenderField(result, AnalysisFields[index[k]]).v],
         crashed |-> IF bad = {} THEN <<>> ELSE <<"TypeError">>]

\* the body of `if result:` and the nested Save Resume Version button
RenderResult(result, label, T, vs) ==
    LET nothing == [analysis |-> <<>>, crashed |-> <<>>, widgets |-> {},
                    saved |-> <<>>, versions |-> vs]
        Render(r, rewritten) ==
            IF ~ PyTruthy(result) THEN nothing
            ELSE IF ~ HasGet(result)
            THEN [nothing EXCEPT !.crashed = <<"AttributeError">>]
            ELSE IF r.crashed # <<>>
            THEN [nothing EXCEPT !.analysis = <<r.shown>>,
                                 !.crashed = r.crashed]
            ELSE IF ~ PyTruthy(rewritten)
            THEN [nothing EXCEPT !.analysis = <<r.shown>>]
            ELSE IF "save" \in T
            THEN [analysis |-> <<r.shown>>, crashed |-> <<>>,
                  widgets |-> {"version_name", "save"},
                  saved |-> <<label>>,
                  versions |-> saveVersion(vs, label, rewritten)]
            ELSE [nothing EXCEPT !.analysis = <<r.shown>>,
                                 !.widgets = {"version_name", "save"}]
    IN  Render(RenderFields(result), Get(result, "rewritten_resume", JStr("")))

\* `if st.button("Analyze & Rewrite Resume"):` with everything under it
AnalyzeBlock(text, jd, uq, label, T, reply, vs) ==
    LET Shown(c, r) ==
            [requests |-> <<c.request>>, errors |-> c.errors,
             analysis |-> r.analysis, crashed |-> r.crashed,
             widgets |-> r.widgets, saved |-> r.saved, versions |-> r.versions]
        Handler(c) == Shown(c, RenderResult(c.result, label, T, vs))
    IN  IF "analyze" \in T
        THEN Handler(AnalyzeCall(text, jd, uq, reply))
        ELSE [requests |-> <<>>, errors |-> <<>>, analysis |-> <<>>,
              crashed |-> <<>>, widgets |-> {}, saved |-> <<>>, versions |-> vs]

-----------------------------------------------------------------------------
(* Generate Cover Letter, Optimize LinkedIn Profile, Generate Interview Q&A *)

\* one `if st.button(...)` block; user_question is not passed
FreeTextBlock(site, text, jd, T, reply) ==
    LET prompt == make_prompt(text, jd, None, site)
    IN  IF site \notin T
        THEN [requests |-> <<>>, errors |-> <<>>, free |-> <<>>]
        ELSE IF reply.ok
        THEN [requests |-> <<PlainRequest(site, prompt)>>, errors |-> <<>>,
              free |-> <<[site |-> site, text |-> reply.text]>>]
        ELSE [requests |-> <<PlainRequest(site, prompt)>>,
              errors |-> <<"OpenAI API call failed: " \o reply.text>>,
              free |-> <<>>]

-----------------------------------------------------------------------------
(* Resume Version Viewer                                                   *)

Viewer(vs) ==
    IF vs.keys = <<>> THEN <<>>
    ELSE <<[options |-> vs.keys, selected |-> vs.keys[1],
            text |-> vs.d[vs.keys[1]]]>>

-----------------------------------------------------------------------------
(* The chat block under "Analyze Demo Text"                                *)

ChatReply(reply) ==
    IF reply.ok THEN reply.text
    ELSE "Oops, something went wrong: " \o reply.text

\* chat is <<>> while st.session_state has no chat_history, else <<turns>>
ChatBlock(dm, jd, user_input, reply, chat) ==
    LET turns  == IF chat = <<>> THEN <<>> ELSE chat[1]
        prompt == make_prompt(dm, jd, user_input, "analyze")
    IN  IF Truthy(user_input)
        THEN [requests |-> <<PlainRequest("chat", prompt)>>,
              chat |-> << turns
                          \o <<[role |-> "user", content |-> user_input]>>
                          \o <<[role |-> "assistant",
                                content |-> ChatReply(reply)]>> >>]
        ELSE [requests |-> <<>>, chat |-> <<turns>>]

-----------------------------------------------------------------------------
(* One run of the script                                                   *)

DefaultLabel == "Version 1"

NoReply == [ok |-> FALSE, text |-> "<no call>"]

\* events, msg: the widget events the run was started with; reply: what the
\* endpoint answers during the run; the rest is what the run put on the page
BlankPage ==
    [events |-> {}, msg |-> None, reply |-> NoReply, errors |-> <<>>,
     scores |-> <<>>, analysis |-> <<>>, free |-> <<>>, saved |-> <<>>,
     viewer |-> <<>>, crashed |-> <<>>, widgets |-> {}]

\* `if uploaded:` with a file whose text is usable
ResumeBranch(text, jd, uq, label, T, reply, vs, chat) ==
    LET Blocks(a, c, l, i, pg) ==
            IF a.crashed # <<>>
            THEN [page |-> [pg EXCEPT !.errors = a.errors,
                                      !.analysis = a.analysis,
                                      !.saved = a.saved,
                                      !.crashed = a.crashed,
                                      !.widgets = {"analyze"} \cup a.widgets],
                  requests |-> a.requests, versions |-> a.versions,
                  chat |-> chat]
            ELSE [page |-> [pg EXCEPT
                      !.errors = a.errors \o c.errors \o l.errors \o i.errors,
                      !.analysis = a.analysis,
                      !.saved = a.saved,
                      !.free = c.free \o l.free \o i.free,
                      !.viewer = Viewer(a.versions),
                      !.widgets = {"analyze", "cover_letter", "linkedin",
                                   "interview"} \cup a.widgets],
                  requests |-> a.requests \o c.requests \o l.requests
                               \o i.requests,
                  versions |-> a.versions, chat |-> chat]
    IN  Blocks(AnalyzeBlock(text, jd, uq, label, T, reply, vs),
               FreeTextBlock("cover_letter", text, jd, T, reply),
               FreeTextBlock("linkedin", text, jd, T, reply),
               FreeTextBlock("interview", text, jd, T, reply),
               [BlankPage EXCEPT !.scores = <<resume_score(text)>>])

\* `if uploaded:` ... `else:` up to, not including, the Clear Chat button
Body(file, jd, uq, dm, label, T, msg, reply, vs, chat) ==
    LET Uploaded(ex) ==
            IF strip(ex.text) = ""
            THEN [page |-> [BlankPage EXCEPT !.errors = ex.errors \o
                     <<"Could not extract text. Try a different file or paste below.">>],
                  requests |-> <<>>, versions |-> vs, chat |-> chat]
            ELSE ResumeBranch(ex.text, jd, uq, label, T, reply, vs, chat)
        Demo(cb) ==
            [page |-> [BlankPage EXCEPT !.scores = <<resume_score(dm)>>,
                          !.widgets = {"demo", "analyze_demo", "chat"}],
             requests |-> cb.requests, versions |-> vs, chat |-> cb.chat]
    IN  IF file # <<>> THEN Uploaded(extract_text(file[1]))
        ELSE IF Truthy(dm) /\ "analyze_demo" \in T
        THEN Demo(ChatBlock(dm, jd, msg, reply, chat))
        ELSE [page |-> [BlankPage EXCEPT
                          !.widgets = IF Truthy(dm) THEN {"demo", "analyze_demo"}
                                      ELSE {"demo"}],
              requests |-> <<>>, versions |-> vs, chat |-> chat]

\* the whole script: the body, then `if st.button("Clear Chat"):`, which an
\* uncaught exception in the body keeps the run from reaching
Script(file, jd, uq, dm, label, T, msg, reply, vs, chat) ==
    LET ClearChat(b) ==
            IF b.page.crashed # <<>> THEN b
            ELSE [b EXCEPT !.page.widgets = @ \cup {"clear_chat"},
                           !.chat = IF "clear_chat" \in T THEN << <<>> >>
                                    ELSE @]
        Started(b) ==
            [b EXCEPT !.page.events = T, !.page.msg = msg,
                      !.page.reply = reply]
    IN  ClearChat(Started(Body(file, jd, uq, dm, label, T, msg, reply, vs,
                               chat)))

-----------------------------------------------------------------------------
(* Inputs                                                                  *)

\* how many widget events one run may find delivered together
MaxCoalesced == 2

\* chat turns kept before the model stops submitting
MaxTurns == 2

Files ==
    { [name |-> "cv.PDF", body |-> "Jane Roe\nEmail: j@x.io\nSKILLS: SQL",
       raises |-> <<>>],
      [name |-> "scan.docx", body |-> " \n", raises |-> <<>>],
      [name |-> "broken.pdf", body |-> "Experience",
       raises |-> <<"EOF marker not found">>] }

JobDescriptions == {"", "Data analyst"}

UserQuestions == {"", "Too long?"}

DemoTexts == {"", " ", "Skills: Excel"}

Labels == {DefaultLabel, "V2"}

ChatMsgs == {"Is it ok?"}

\* the widgets whose event makes the run call the endpoint
CallSites == {"analyze", "cover_letter", "linkedin", "interview", "chat"}

RepliesFor(T) == IF T \cap CallSites = {} THEN {NoReply} ELSE Replies

-----------------------------------------------------------------------------
(* The session                                                             *)

FirstRun ==
    Script(<<>>, "", "", "", DefaultLabel, {}, None, NoReply, EmptyDict, <<>>)

InitSession ==
    /\ uploaded = <<>>
    /\ job_description = ""
    /\ user_question = ""
    /\ demo = ""
    /\ version_name = DefaultLabel
    /\ versions = EmptyDict
    /\ versions_before = EmptyDict
    /\ chat_history = FirstRun.chat
    /\ page = FirstRun.page
    /\ requests = FirstRun.requests

Init == InitSession /\ arg = <<>> /\ ret = <<>>

\* a rerun of the script with the widget state the browser delivered: the
\* values of the input widgets, the buttons T found pressed and the chat
\* message msg found submitted
Rerun(file, jd, uq, dm, label, T, msg, reply) ==
    \E out \in {Script(file, jd, uq, dm, label, T, msg, reply, versions,
                       chat_history)} :
        /\ uploaded' = file
        /\ job_description' = jd
        /\ user_question' = uq
        /\ demo' = IF "demo" \in out.page.widgets THEN dm ELSE ""
        /\ version_name' = IF "version_name" \in out.page.widgets THEN label
                           ELSE DefaultLabel
        /\ versions' = out.versions
        /\ versions_before' = versions
        /\ chat_history' = out.chat
        /\ page' = out.page
        /\ requests' = out.requests
        /\ UNCHANGED <<arg, ret>>

\* a button press on its own
Click(b, reply) ==
    Rerun(uploaded, job_description, user_question, demo, version_name,
          {b}, None, reply)

Upload ==
    \E f \in Files :
        /\ uploaded # <<f>>
        /\ Rerun(<<f>>, job_description, user_question, demo, version_name,
                 {}, None, NoReply)

RemoveFile ==
    /\ uploaded # <<>>
    /\ Rerun(<<>>, job_description, user_question, demo, version_name,
             {}, None, NoReply)

EditJobDescription ==
    \E jd \in JobDescriptions \ {job_description} :
        Rerun(uploaded, jd, user_question, demo, version_name, {}, None, NoReply)

EditUserQuestion ==
    \E uq \in UserQuestions \ {user_question} :
        Rerun(uploaded, job_description, uq, demo, version_name, {}, None, NoReply)

EditDemo ==
    /\ "demo" \in page.widgets
    /\ \E dm \in DemoTexts \ {demo} :
        Rerun(uploaded, job_description, user_question, dm, version_name,
              {}, None, NoReply)

EditVersionName ==
    /\ "version_name" \in page.widgets
    /\ \E label \in Labels \ {version_name} :
        Rerun(uploaded, job_description, user_question, demo, label,
              {}, None, NoReply)

ClickAnalyze ==
    /\ "analyze" \in page.widgets
    /\ \E reply \in Replies : Click("analyze", reply)

ClickSave ==
    /\ "save" \in page.widgets
    /\ Click("save", NoReply)

ClickCoverLetter ==
    /\ "cover_letter" \in page.widgets
    /\ \E reply \in Replies : Click("cover_letter", reply)

ClickLinkedIn ==
    /\ "linkedin" \in page.widgets
    /\ \E reply \in Replies : Click("linkedin", reply)

ClickInterview ==
    /\ "interview" \in page.widgets
    /\ \E reply \in Replies : Click("interview", reply)

ClickAnalyzeDemo ==
    /\ "analyze_demo" \in page.widgets
    /\ Click("analyze_demo", NoReply)

ClickClearChat ==
    /\ "clear_chat" \in page.widgets
    /\ Click("clear_chat", NoReply)

Turns == IF chat_history = <<>> THEN <<>> ELSE chat_history[1]

SubmitChat ==
    /\ "chat" \in page.widgets
    /\ Len(Turns) + 2 <= MaxTurns
    /\ \E m \in ChatMsgs, reply \in Replies :
        Rerun(uploaded, job_description, user_question, demo, version_name,
              {"chat"}, m, reply)

Buttons ==
    {"analyze", "save", "cover_letter", "linkedin", "interview",
     "analyze_demo", "clear_chat"}

\* Streamlit merges the widget events that reach it before a pending rerun
\* has started, so one run can find several of them delivered together; T is
\* the widgets whose events are merged
Coalesce(T) ==
    \E label \in (IF "version_name" \in page.widgets THEN Labels
                  ELSE {version_name}),
       msg \in (IF "chat" \in T THEN ChatMsgs ELSE {None}),
       reply \in RepliesFor(T) :
        Rerun(uploaded, job_description, user_question, demo, label,
              T, msg, reply)

Coalesced ==
    \E T \in SUBSET (page.widgets \cap (Buttons \cup {"chat"})) :
        /\ Cardinality(T) >= 2
        /\ Cardinality(T) <= MaxCoalesced
        /\ "chat" \in T => Len(Turns) + 2 <= MaxTurns
        /\ Coalesce(T)

\* a press of Save Resume Version merged with one of Analyze & Rewrite Resume
AnalyzeWithSave ==
    /\ {"analyze", "save"} \subseteq page.widgets
    /\ Coalesce({"analyze", "save"})

Next ==
    \/ Upload
    \/ RemoveFile
    \/ EditJobDescription
    \/ EditUserQuestion
    \/ EditDemo
    \/ EditVersionName
    \/ ClickAnalyze
    \/ ClickSave
    \/ ClickCoverLetter
    \/ ClickLinkedIn
    \/ ClickInterview
    \/ ClickAnalyzeDemo
    \/ ClickClearChat
    \/ SubmitChat
    \/ Coalesced

Spec == Init /\ [][Next]_vars

\* a user who works on an uploaded resume, one widget event per run
NextResume ==
    \/ Upload
    \/ RemoveFile
    \/ EditJobDescription
    \/ EditUserQuestion
    \/ EditVersionName
    \/ ClickAnalyze
    \/ ClickSave
    \/ ClickCoverLetter
    \/ ClickLinkedIn
    \/ ClickInterview
    \/ ClickClearChat

SpecResume == Init /\ [][NextResume]_vars

\* a user who analyzes an uploaded resume and saves versions of it
NextVersions ==
    \/ Upload
    \/ RemoveFile
    \/ EditVersionName
    \/ ClickAnalyze
    \/ ClickSave
    \/ AnalyzeWithSave

SpecVersions == Init /\ [][NextVersions]_vars

\* a user who pastes demo text and chats
NextChat ==
    \/ EditJobDescription
    \/ EditUserQuestion
    \/ EditDemo
    \/ ClickAnalyzeDemo
    \/ SubmitChat
    \/ ClickClearChat
    \/ Coalesced

SpecChat == Init /\ [][NextChat]_vars

-----------------------------------------------------------------------------
(* make_prompt and resume_score on their own                                *)

\* how many fragments a scored text is put together from
MaxFragments == 2

ContactFragments == {"EMAIL: j@x.io", "Phone", "my contact"}

SkillsFragments == {"SKILLS:", "Soft skills"}

ExperienceFragments == {"Experience", "experienced"}

OtherFragments == {"John Doe", "skill", "5 years"}

Fragments ==
    ContactFragments \cup SkillsFragments \cup ExperienceFragments
    \cup OtherFragments

RECURSIVE JoinWords(_)
\* the fragments, one space between neighbours
JoinWords(ws) ==
    IF ws = <<>> THEN ""
    ELSE IF Len(ws) = 1 THEN ws[1]
    ELSE ws[1] \o " " \o JoinWords(Tail(ws))

ScoreArgs == UNION {[1..n -> Fragments] : n \in 0..MaxFragments}

InitScore == InitSession /\ arg \in ScoreArgs /\ ret = <<>>

CallResumeScore ==
    /\ ret = <<>>
    /\ ret' = <<resume_score(JoinWords(arg))>>
    /\ UNCHANGED <<uploaded, job_description, user_question, demo,
                   version_name, versions, versions_before, chat_history,
                   page, requests, arg>>

NextScore == CallResumeScore

SpecScore == InitScore /\ [][NextScore]_vars

PromptArgs ==
    [resume : {"", "R", "Resume Text:\nx"},
     jd     : {None, "", " ", "JD"},
     uq     : {None, "", " ", "Q"},
     mode   : Modes]

InitPrompt == InitSession /\ arg \in PromptArgs /\ ret = <<>>

CallMakePrompt ==
    /\ ret = <<>>
    /\ ret' = <<make_prompt(arg.resume, arg.jd, arg.uq, arg.mode)>>
    /\ UNCHANGED <<uploaded, job_description, user_question, demo,
                   version_name, versions, versions_before, chat_history,
                   page, requests, arg>>

NextPrompt == CallMakePrompt

SpecPrompt == InitPrompt /\ [][NextPrompt]_vars

-----------------------------------------------------------------------------
(* Properties                                                              *)

\* C10: resume_score gives Contact 10 exactly when the lower-cased text holds
\* "email", "phone" or "contact", Skills 10 exactly when it holds "skills",
\* Experience 10 exactly when it holds "experience", each 0 otherwise and each
\* decided on its own, and Total is the sum of the three.  The scored text is
\* put together from fragments, so which words it holds is known.
ScoreByKeywordC10 ==
    ret # <<>> =>
        LET has(F) == \E i \in 1..Len(arg) : arg[i] \in F
        IN  /\ ret[1].Contact = IF has(ContactFragments) THEN 10 ELSE 0
            /\ ret[1].Skills = IF has(SkillsFragments) THEN 10 ELSE 0
            /\ ret[1].Experience = IF has(ExperienceFragments) THEN 10 ELSE 0
            /\ ret[1].Total
                 = ret[1].Contact + ret[1].Skills + ret[1].Experience

\* a text in capitals with contact and experience words and no skills word
ScoredMixedCaseC10 ==
    /\ arg = <<"EMAIL: j@x.io", "Experience">>
    /\ ret = <<[Contact |-> 10, Skills |-> 0, Experience |-> 10, Total |-> 20]>>

\* C9: the prompt is the preamble, the mode's instructions, the job
\* description block, the user question block and the resume block in that
\* order; the two optional blocks are there exactly when their input is
\* non-empty; the resume text closes the prompt verbatim.
PromptBlocksC9 ==
    ret # <<>> =>
        LET p      == ret[1]
            instr  == IF arg.mode = "analyze" THEN AnalyzeInstr
                      ELSE IF arg.mode = "cover_letter" THEN CoverLetterInstr
                      ELSE IF arg.mode = "linkedin" THEN LinkedInInstr
                      ELSE InterviewInstr
            head   == Preamble(arg.mode) \o instr
            jdb    == IF arg.jd \in {None, ""} THEN ""
                      ELSE "Job Description:\n" \o arg.jd \o "\n"
            uqb    == IF arg.uq \in {None, ""} THEN ""
                      ELSE "User Question:\n" \o arg.uq \o "\n"
            resume == "Resume Text:\n" \o arg.resume
        IN  /\ Len(p) = Len(head) + Len(jdb) + Len(uqb) + Len(resume)
            /\ StartsAt(p, 1, head)
            /\ StartsAt(p, Len(head) + 1, jdb)
            /\ StartsAt(p, Len(head) + Len(jdb) + 1, uqb)
            /\ EndsWith(p, resume)

\* a prompt built with both optional inputs given
PromptWithBothBlocksC9 ==
    /\ ret # <<>>
    /\ arg.jd = "JD"
    /\ arg.uq = "Q"
    /\ arg.mode = "interview"
    /\ Contains(ret[1], "Job Description:\nJD\nUser Question:\nQ\nResume Text:\n")

\* C4: a save under label L leaves L in the versions map once, holding the
\* text just saved, whatever L held before; the entries under the other
\* labels are as they were; and a run that saves nothing leaves the map as it
\* was, so no entry is ever removed.
SaveOverwritesC4 ==
    IF page.saved = <<>> THEN versions = versions_before
    ELSE LET L == page.saved[1]
         IN  /\ Cardinality({i \in 1..Len(versions.keys) : versions.keys[i] = L}) = 1
             /\ DOMAIN versions.d = DOMAIN versions_before.d \cup {L}
             /\ versions.d[L] = page.analysis[1]["rewritten_resume"]
             /\ \A l \in DOMAIN versions_before.d \ {L} :
                    versions.d[l] = versions_before.d[l]
             /\ \A i \in 1..Len(versions_before.keys) :
                    versions.keys[i] = versions_before.keys[i]

\* a label saved a second time with another text, next to another label
SavedAgainC4 ==
    /\ page.saved # <<>>
    /\ page.saved[1] \in DOMAIN versions_before.d
    /\ versions_before.d[page.saved[1]] # versions.d[page.saved[1]]
    /\ Len(versions.keys) = 2

\* the text is shown somewhere on the page
OnPage(text) ==
    \/ \E i \in 1..Len(page.errors) : Contains(page.errors[i], text)
    \/ \E i \in 1..Len(page.free) : Contains(page.free[i].text, text)

\* C1: when the Analyze call succeeds and its text does not parse as JSON, no
\* analysis is produced and the raw text is kept and shown to the user.
DecodeFailureShowsRawC1 ==
    ( /\ "analyze" \in page.events
      /\ requests # <<>>
      /\ page.reply.ok
      /\ ~ json_loads(page.reply.text).ok )
    => /\ page.analysis = <<>>
       /\ OnPage(page.reply.text)

\* C2: a chat message m submitted while the endpoint fails adds two turns to
\* the chat history, a user turn holding m and then an assistant turn holding
\* a non-empty error text; and after a Clear Chat run the history is empty.
ChatFailureAddsTwoTurnsC2 ==
    /\ [][ (page'.msg # None /\ ~ page'.reply.ok) =>
             /\ Len(Turns') = Len(Turns) + 2
             /\ SubSeq(Turns', 1, Len(Turns)) = Turns
             /\ Turns'[Len(Turns) + 1] = [role |-> "user", content |-> page'.msg]
             /\ Turns'[Len(Turns) + 2].role = "assistant"
             /\ Turns'[Len(Turns) + 2].content # "" ]_vars
    /\ [](page.events = {"clear_chat"} => Turns = <<>>)

\* C3: an Analyze run whose result has a non-empty rewritten_resume offers
\* the save, and a press of the offered Save Resume Version button with label
\* L leaves versions[L] equal to that rewritten_resume.
SaveAfterAnalyzeC3 ==
    /\ []( ( /\ page.crashed = <<>>
             /\ page.analysis # <<>>
             /\ PyTruthy(page.analysis[1]["rewritten_resume"]) )
           => "save" \in page.widgets )
    /\ [][ ("save" \in page.widgets /\ "save" \in page'.events) =>
             /\ version_name \in DOMAIN versions'.d
             /\ versions'.d[version_name]
                  = page.analysis[1]["rewritten_resume"] ]_vars

\* C5: no run ends in an uncaught exception, and a run that was asked to
\* generate ends with a result or an error message on the page.
ActionEndsInResultOrErrorC5 ==
    /\ page.crashed = <<>>
    /\ requests # <<>> =>
         \/ page.errors # <<>>
         \/ page.analysis # <<>>
         \/ page.free # <<>>

ListFields ==
    {"strengths", "weaknesses", "rewritten_bullets", "job_titles",
     "freelance_ideas", "keywords"}

TextFields ==
    {"assessment", "rewritten_resume", "bullet_resume", "email_summary"}

\* a JSON object whose expected keys, where present, hold a value of the
\* field's type
WellTypedObject(v) ==
    /\ v.t = "dict"
    /\ \A k \in DOMAIN v.d \cap TextFields : v.d[k].t = "str"
    /\ \A k \in DOMAIN v.d \cap ListFields :
          /\ v.d[k].t = "list"
          /\ \A i \in 1..Len(v.d[k].l) : v.d[k].l[i].t = "str"

\* C6: an Analyze reply that is a JSON object with any of the ten keys
\* missing, the empty object included, gives a result with the missing fields
\* empty and the present fields as supplied, and no error.
MissingKeysDefaultC6 ==
    ( /\ page.events = {"analyze"}
      /\ requests # <<>>
      /\ page.reply.ok
      /\ json_loads(page.reply.text).ok
      /\ WellTypedObject(json_loads(page.reply.text).v) )
    => LET v == json_loads(page.reply.text).v
       IN  /\ page.errors = <<>>
           /\ page.analysis # <<>>
           /\ DOMAIN page.analysis[1] = ListFields \cup TextFields
           /\ \A k \in TextFields :
                 page.analysis[1][k]
                   = IF k \in DOMAIN v.d THEN v.d[k] ELSE JStr("")
           /\ \A k \in ListFields \ {"job_titles", "keywords"} :
                 page.analysis[1][k]
                   = IF k \in DOMAIN v.d THEN v.d[k] ELSE JList(<<>>)
           /\ \A k \in {"job_titles", "keywords"} :
                 page.analysis[1][k]
                   = IF k \in DOMAIN v.d THEN JStr(JoinItems(", ", v.d[k].l))
                     ELSE JStr("")

\* the resume text the last run worked on
ResumeText == IF uploaded # <<>> THEN extract_text(uploaded[1]).text ELSE demo

\* C7: no generation request carries an empty or white-space-only resume
\* text; a file without usable text gives an error message and no generation
\* button.
NoRequestOnBlankResumeC7 ==
    /\ \A i \in 1..Len(requests) :
          /\ EndsWith(requests[i].prompt, "Resume Text:\n" \o ResumeText)
          /\ strip(ResumeText) # ""
    /\ (uploaded # <<>> /\ strip(ResumeText) = "") =>
          /\ page.errors # <<>>
          /\ page.widgets \cap CallSites = {}

\* C8: a request whose prompt was built in analyze mode, the chat request
\* included, carries temperature 0.2; a request of the cover letter, LinkedIn
\* or interview mode carries no temperature.
TemperatureByModeC8 ==
    \A i \in 1..Len(requests) :
        IF StartsAt(requests[i].prompt, 1, Preamble("analyze"))
        THEN /\ "temperature" \in DOMAIN requests[i].kwargs
             /\ requests[i].kwargs.temperature = AnalyzeTemperature
        ELSE "temperature" \notin DOMAIN requests[i].kwargs

====
